---- MODULE Spec2Model ----
(***************************************************************************)
(* Docker-Config-Extractor: the inspection parser (ParseInspectJSON), the  *)
(* command generator (GenerateRunCommand, token and textual variants) and  *)
(* the command-line orchestrator (Manager, main).                          *)
(*                                                                         *)
(* A Go string is a sequence of one-character strings, so that TrimPrefix, *)
(* Split, Sprintf and Join are computed character by character.  A Go      *)
(* slice is a record [nil, items] and a Go map a record [nil, m]: a nil    *)
(* slice and an empty non-nil slice are different values.  The iteration   *)
(* order of a Go map is unspecified: every range over a map takes the      *)
(* order as a nondeterministic input.                                      *)
(***************************************************************************)
EXTENDS Integers, Sequences, FiniteSets, TLC

VARIABLES
    \* generator calls: the specification and overrides of the call, the order
    \* its range over the labels took, its result; the same for the textual
    \* variant and for the call before
    gspec, gopts, gorder, args, text, torder, prevArgs, prevOpts, prevOrder, gpc,
    \* parser calls: the document, the orders the ranges over the ports and the
    \* networks took, the result, and the tokens generated from it
    pdoc, pportOrder, pnetOrder, presult, popts, plabelOrder, pargs, ppc,
    \* the command-line program: its position, os.Args, the Manager's fields
    \* and main's locals, the output of docker inspect, the specification and
    \* the arguments of docker run, the docker commands executed so far, the
    \* steps that failed, the warnings logged, the time spent waiting for the
    \* container, what CreateDevContainer returned, the exit code, whether
    \* the dev container was found, the answer to the prompt and what the last
    \* poll of waitForContainer saw
    pc, osArgs, containerName, devContainerName, devSwapDir, enableDebugger,
    injectScript, stdout, devSpec, runArgs, cmds, failed, warnings, elapsed,
    createErr, exitCode, exists, answer, pollOut

genVars == <<gspec, gopts, gorder, args, text, torder, prevArgs, prevOpts, prevOrder, gpc>>

parseVars == <<pdoc, pportOrder, pnetOrder, presult, popts, plabelOrder, pargs, ppc>>

runVars ==
    <<pc, osArgs, containerName, devContainerName, devSwapDir, enableDebugger,
      injectScript, stdout, devSpec, runArgs, cmds, failed, warnings, elapsed,
      createErr, exitCode, exists, answer, pollOut>>

vars == <<genVars, parseVars, runVars>>

(***************************************************************************)
(* Bounds of the model.                                                    *)
(***************************************************************************)
\* the number of populated entries (non-empty scalars plus list and map
\* entries) of a specification handed to the generator
MaxSpecItems == 3

\* the number of populated members of the first element of an inspection
\* document handed to the parser
MaxDocItems == 2

\* how many poll intervals one docker inspect of the readiness poll may take
MaxPollTicks == 1

(***************************************************************************)
(* Strings.                                                                *)
(***************************************************************************)
EmptyStr == <<>>

sDocker == <<"d", "o", "c", "k", "e", "r">>
sRun == <<"r", "u", "n">>
sDockerRun == sDocker \o <<" ">> \o sRun

flagName == <<"-", "-", "n", "a", "m", "e">>
flagE == <<"-", "e">>
flagV == <<"-", "v">>
flagP == <<"-", "p">>
flagNetwork == <<"-", "-", "n", "e", "t", "w", "o", "r", "k">>
flagW == <<"-", "w">>
flagL == <<"-", "l">>
flagDevice == <<"-", "-", "d", "e", "v", "i", "c", "e">>
flagAddHost == <<"-", "-", "a", "d", "d", "-", "h", "o", "s", "t">>
flagRestart == <<"-", "-", "r", "e", "s", "t", "a", "r", "t">>
flagEntrypoint == <<"-", "-", "e", "n", "t", "r", "y", "p", "o", "i", "n", "t">>

\* the values the inputs are drawn from
vApp == <<"a", "p", "p">>
vDev == <<"d", "e", "v">>
vAlpine == <<"a", "l", "p">>
vEnvX == <<"X", "=", "1">>
vEnvY == <<"Y", "=", "a", " ", "b">>
vVolA == <<"/", "a", ":", "/", "b">>
vVolC == <<"/", "c", ":", "/", "d">>
vPort80 == <<"8", "0", ":", "8", "0">>
vPort53 == <<"5", "3", ":", "5", "3">>
vNet1 == <<"n", "1">>
vNet2 == <<"n", "2">>
vWork == <<"/", "w">>
vKeyK == <<"k">>
vKeyJ == <<"j">>
vValV == <<"v">>
vValU == <<"u", " ", "u">>
vDevX == <<"/", "x", ":", "/", "x">>
vDevY == <<"/", "y", ":", "/", "z">>
vHostH == <<"h", ":", "1">>
vHostG == <<"g", ":", "2">>
vAlways == <<"a", "l", "w", "a", "y", "s">>
vNo == <<"n", "o">>
vSh == <<"s", "h">>
vDashC == <<"-", "c">>
vEcho == <<"e", "c", "h", "o">>
vHi == <<"h", "i">>

(***************************************************************************)
(* Slices and maps.                                                        *)
(***************************************************************************)
NilSlice == [nil |-> TRUE, items |-> <<>>]

\* append(s, v): the result is never nil
append(s, v) == [nil |-> FALSE, items |-> Append(s.items, v)]

len(s) == Len(s.items)

NilMap == [nil |-> TRUE, m |-> <<>>]

MapPut(mp, k, v) == [nil |-> FALSE, m |-> (k :> v) @@ mp.m]

\* the orders in which a range over a map with these keys may visit them
Orders(keys) ==
    {o \in [1..Cardinality(keys) -> keys] : \A i, j \in 1..Cardinality(keys) : o[i] = o[j] => i = j}

(***************************************************************************)
(* ContainerSpec and RunOptions.                                           *)
(***************************************************************************)
ZeroSpec ==
    [Name |-> EmptyStr, Image |-> EmptyStr, Env |-> NilSlice, Volumes |-> NilSlice,
     Ports |-> NilSlice, Networks |-> NilSlice, Command |-> NilSlice,
     WorkingDir |-> EmptyStr, Labels |-> NilMap, EntryPoint |-> NilSlice,
     Devices |-> NilSlice, ExtraHosts |-> NilSlice, Restart |-> EmptyStr]

\* opts == nil is [nil |-> TRUE]; a *RunOptions otherwise
NilOpts == [nil |-> TRUE, Name |-> EmptyStr]

RunOptions(name) == [nil |-> FALSE, Name |-> name]

(***************************************************************************)
(* GenerateRunCommand, token variant: the argument list is built by        *)
(* appending, one block of the function after the other.                   *)
(***************************************************************************)
\* for _, x := range xs { args = append(args, flag, x) }
RECURSIVE AppendFlagged(_, _, _)
AppendFlagged(a, flag, xs) ==
    IF xs = <<>> THEN a
    ELSE AppendFlagged(a \o <<flag, Head(xs)>>, flag, Tail(xs))

\* a variant of AddName that lets the specification's name win
AddNameSpecFirst(a, spec, opts) ==
    IF spec.Name # EmptyStr THEN a \o <<flagName, spec.Name>>
    ELSE IF ~opts.nil /\ opts.Name # EmptyStr THEN a \o <<flagName, opts.Name>>
    ELSE a

AddName(a, spec, opts) ==
    IF ~opts.nil /\ opts.Name # EmptyStr THEN a \o <<flagName, opts.Name>>
    ELSE IF spec.Name # EmptyStr THEN a \o <<flagName, spec.Name>>
    ELSE a

AddEnv(a, spec) == AppendFlagged(a, flagE, spec.Env.items)

AddVolumes(a, spec) == AppendFlagged(a, flagV, spec.Volumes.items)

AddPorts(a, spec) == AppendFlagged(a, flagP, spec.Ports.items)

AddNetworks(a, spec) == AppendFlagged(a, flagNetwork, spec.Networks.items)

AddWorkingDir(a, spec) ==
    IF spec.WorkingDir # EmptyStr THEN a \o <<flagW, spec.WorkingDir>> ELSE a

\* for key, value := range spec.Labels, visiting the keys in `order`
RECURSIVE AddLabels(_, _, _)
AddLabels(a, spec, order) ==
    IF order = <<>> THEN a
    ELSE AddLabels(a \o <<flagL, Head(order) \o <<"=">> \o spec.Labels.m[Head(order)]>>,
                   spec, Tail(order))

AddDevices(a, spec) == AppendFlagged(a, flagDevice, spec.Devices.items)

AddExtraHosts(a, spec) == AppendFlagged(a, flagAddHost, spec.ExtraHosts.items)

AddRestart(a, spec) ==
    IF spec.Restart # EmptyStr THEN a \o <<flagRestart, spec.Restart>> ELSE a

\* a variant of AddEntrypoint that passes every element of the entrypoint
AddEntrypointAll(a, spec) ==
    IF len(spec.EntryPoint) > 0 THEN a \o <<flagEntrypoint>> \o spec.EntryPoint.items ELSE a

AddEntrypoint(a, spec) ==
    IF len(spec.EntryPoint) > 0 THEN a \o <<flagEntrypoint, spec.EntryPoint.items[1]>> ELSE a

AddImage(a, spec) == Append(a, spec.Image)

AddCommand(a, spec) == IF len(spec.Command) > 0 THEN a \o spec.Command.items ELSE a

\* a variant of GenerateRunCommand that emits the ports before the volumes
GenerateRunCommandPortsFirst(spec, opts, order) ==
    LET a1 == AddName(<<>>, spec, opts)
        a2 == AddEnv(a1, spec)
        a3 == AddPorts(a2, spec)
        a4 == AddVolumes(a3, spec)
        a5 == AddNetworks(a4, spec)
        a6 == AddWorkingDir(a5, spec)
        a7 == AddLabels(a6, spec, order)
        a8 == AddDevices(a7, spec)
        a9 == AddExtraHosts(a8, spec)
        a10 == AddRestart(a9, spec)
        a11 == AddEntrypoint(a10, spec)
        a12 == AddImage(a11, spec)
    IN  AddCommand(a12, spec)

GenerateRunCommand(spec, opts, order) ==
    LET a1 == AddName(<<>>, spec, opts)
        a2 == AddEnv(a1, spec)
        a3 == AddVolumes(a2, spec)
        a4 == AddPorts(a3, spec)
        a5 == AddNetworks(a4, spec)
        a6 == AddWorkingDir(a5, spec)
        a7 == AddLabels(a6, spec, order)
        a8 == AddDevices(a7, spec)
        a9 == AddExtraHosts(a8, spec)
        a10 == AddRestart(a9, spec)
        a11 == AddEntrypoint(a10, spec)
        a12 == AddImage(a11, spec)
    IN  AddCommand(a12, spec)

(***************************************************************************)
(* GenerateRunCommand, textual variant.                                    *)
(***************************************************************************)
\* strings.Join(parts, sep)
RECURSIVE Join(_, _)
Join(parts, sep) ==
    IF parts = <<>> THEN EmptyStr
    ELSE IF Len(parts) = 1 THEN parts[1]
    ELSE parts[1] \o sep \o Join(Tail(parts), sep)

\* the body of a %q rendering: a double quote and a backslash are escaped
RECURSIVE Escape(_)
Escape(s) ==
    IF s = <<>> THEN <<>>
    ELSE (IF Head(s) \in {"\"", "\\"} THEN <<"\\", Head(s)>> ELSE <<Head(s)>>) \o Escape(Tail(s))

\* fmt.Sprintf("%q", s)
Quote(s) == <<"\"">> \o Escape(s) \o <<"\"">>

\* for _, x := range xs { parts = append(parts, fmt.Sprintf("<flag> %s", x)) }
RECURSIVE AppendPlain(_, _, _)
AppendPlain(p, flag, xs) ==
    IF xs = <<>> THEN p
    ELSE AppendPlain(Append(p, flag \o <<" ">> \o Head(xs)), flag, Tail(xs))

\* for _, env := range spec.Env { parts = append(parts, fmt.Sprintf("-e %q", env)) }
RECURSIVE AppendQuoted(_, _, _)
AppendQuoted(p, flag, xs) ==
    IF xs = <<>> THEN p
    ELSE AppendQuoted(Append(p, flag \o <<" ">> \o Quote(Head(xs))), flag, Tail(xs))

\* for key, value := range spec.Labels: fmt.Sprintf("-l %s=%q", key, value)
RECURSIVE TextLabels(_, _, _)
TextLabels(p, spec, order) ==
    IF order = <<>> THEN p
    ELSE TextLabels(
            Append(p, flagL \o <<" ">> \o Head(order) \o <<"=">> \o Quote(spec.Labels.m[Head(order)])),
            spec, Tail(order))

TextName(p, spec, opts) ==
    IF ~opts.nil /\ opts.Name # EmptyStr THEN Append(p, flagName \o <<" ">> \o opts.Name)
    ELSE IF spec.Name # EmptyStr THEN Append(p, flagName \o <<" ">> \o spec.Name)
    ELSE p

GenerateRunCommandText(spec, opts, order) ==
    LET p0 == <<sDockerRun>>
        p1 == TextName(p0, spec, opts)
        p2 == AppendQuoted(p1, flagE, spec.Env.items)
        p3 == AppendPlain(p2, flagV, spec.Volumes.items)
        p4 == AppendPlain(p3, flagP, spec.Ports.items)
        p5 == AppendPlain(p4, flagNetwork, spec.Networks.items)
        p6 == IF spec.WorkingDir # EmptyStr
              THEN Append(p5, flagW \o <<" ">> \o spec.WorkingDir) ELSE p5
        p7 == TextLabels(p6, spec, order)
        p8 == AppendPlain(p7, flagDevice, spec.Devices.items)
        p9 == AppendPlain(p8, flagAddHost, spec.ExtraHosts.items)
        p10 == IF spec.Restart # EmptyStr
               THEN Append(p9, flagRestart \o <<" ">> \o spec.Restart) ELSE p9
        p11 == IF len(spec.EntryPoint) > 0
               THEN Append(p10, flagEntrypoint \o <<" ">> \o spec.EntryPoint.items[1]) ELSE p10
        p12 == Append(p11, spec.Image)
        p13 == IF len(spec.Command) > 0
               THEN Append(p12, Join(spec.Command.items, <<" ">>)) ELSE p12
    IN  Join(p13, <<" ">>)

(***************************************************************************)
(* The inspection document.  A JSON member that holds an array or an       *)
(* object is absent, null or a value; a string member that is absent       *)
(* decodes to the empty string and is written as one.  `mistyped` says     *)
(* that some member of the element has a JSON type its Go field cannot     *)
(* hold.                                                                   *)
(***************************************************************************)
sSlash == <<"/">>
sColon == <<":">>
sRo == <<":", "r", "o">>
sBind == <<"b", "i", "n", "d">>
sVolume == <<"v", "o", "l", "u", "m", "e">>
sTmpfs == <<"t", "m", "p", "f", "s">>
sNo == <<"n", "o">>

JAbsent == [kind |-> "absent", items |-> <<>>]

JNull == [kind |-> "null", items |-> <<>>]

JArray(xs) == [kind |-> "value", items |-> xs]

JAbsentObject == [kind |-> "absent", m |-> <<>>]

JNullObject == [kind |-> "null", m |-> <<>>]

JObject(f) == [kind |-> "value", m |-> f]

\* an element of the top-level array with every member absent
ZeroElem ==
    [mistyped |-> FALSE, Name |-> EmptyStr, Image |-> EmptyStr, WorkingDir |-> EmptyStr,
     RestartName |-> EmptyStr, Env |-> JAbsent, Cmd |-> JAbsent, Entrypoint |-> JAbsent,
     ExtraHosts |-> JAbsent, Labels |-> JAbsentObject, Mounts |-> JAbsent,
     Networks |-> JAbsentObject, Ports |-> JAbsentObject, Devices |-> JAbsent]

\* json.Unmarshal of an array member: absent and null leave the slice nil,
\* an array, even an empty one, makes it non-nil
DecodeSlice(j) == IF j.kind = "value" THEN [nil |-> FALSE, items |-> j.items] ELSE NilSlice

\* json.Unmarshal of an object member into a map
DecodeMap(j) == IF j.kind = "value" THEN [nil |-> FALSE, m |-> j.m] ELSE NilMap

\* the Ports member: a map from container port to a slice of bindings
DecodePorts(j) ==
    IF j.kind = "value"
    THEN [nil |-> FALSE, m |-> [k \in DOMAIN j.m |-> DecodeSlice(j.m[k])]]
    ELSE NilMap

\* InspectData, as json.Unmarshal fills it from one element
DecodeElem(e) ==
    [Name |-> e.Name,
     Config |-> [Image |-> e.Image, Env |-> DecodeSlice(e.Env), Cmd |-> DecodeSlice(e.Cmd),
                 Entrypoint |-> DecodeSlice(e.Entrypoint), Labels |-> DecodeMap(e.Labels),
                 WorkingDir |-> e.WorkingDir],
     Mounts |-> DecodeSlice(e.Mounts),
     NetworkSettings |-> [Networks |-> DecodeMap(e.Networks), Ports |-> DecodePorts(e.Ports)],
     HostConfig |-> [Devices |-> DecodeSlice(e.Devices),
                     RestartPolicy |-> [Name |-> e.RestartName],
                     ExtraHosts |-> DecodeSlice(e.ExtraHosts)]]

\* json.Unmarshal([]byte(jsonData), &inspectArray): text that is not JSON and
\* JSON that is no array (or holds a mistyped member) give an error; the JSON
\* null gives no error and leaves the slice nil
Unmarshal(doc) ==
    IF doc.kind \in {"syntax", "scalar"} THEN [err |-> TRUE, arr |-> NilSlice]
    ELSE IF doc.kind = "null" THEN [err |-> FALSE, arr |-> NilSlice]
    ELSE IF \E i \in 1..Len(doc.elems) : doc.elems[i].mistyped
    THEN [err |-> TRUE, arr |-> NilSlice]
    ELSE [err |-> FALSE,
          arr |-> [nil |-> FALSE,
                   items |-> [i \in 1..Len(doc.elems) |-> DecodeElem(doc.elems[i])]]]

(***************************************************************************)
(* ParseInspectJSON.                                                       *)
(***************************************************************************)
errNone == "nil"
errParseJSON == "failed to parse JSON: %w"
errEmpty == "empty inspect data"

NilSpecPtr == [nil |-> TRUE]

SpecPtr(sp) == [nil |-> FALSE, v |-> sp]

\* strings.TrimPrefix(s, prefix)
TrimPrefix(s, prefix) ==
    IF Len(s) >= Len(prefix) /\ SubSeq(s, 1, Len(prefix)) = prefix
    THEN SubSeq(s, Len(prefix) + 1, Len(s))
    ELSE s

\* strings.Split(s, "/")[0]: s up to its first "/", all of s when it has none
RECURSIVE SplitFirst(_)
SplitFirst(s) ==
    IF s = <<>> \/ Head(s) = "/" THEN <<>>
    ELSE <<Head(s)>> \o SplitFirst(Tail(s))

\* a variant of ParseMounts that forgets the :ro suffix of volume mounts
RECURSIVE ParseMountsRoBindOnly(_, _)
ParseMountsRoBindOnly(volumes, mounts) ==
    IF mounts = <<>> THEN volumes
    ELSE LET mount == Head(mounts)
             volumeStr == IF mount.Type = sBind
                          THEN mount.Source \o sColon \o mount.Destination
                               \o (IF ~mount.RW THEN sRo ELSE EmptyStr)
                          ELSE IF mount.Type = sVolume
                          THEN mount.Source \o sColon \o mount.Destination
                          ELSE EmptyStr
         IN  ParseMountsRoBindOnly(
                IF volumeStr # EmptyStr THEN append(volumes, volumeStr) ELSE volumes,
                Tail(mounts))

\* for _, mount := range data.Mounts
RECURSIVE ParseMounts(_, _)
ParseMounts(volumes, mounts) ==
    IF mounts = <<>> THEN volumes
    ELSE LET mount == Head(mounts)
             volumeStr == IF mount.Type = sBind
                          THEN mount.Source \o sColon \o mount.Destination
                          ELSE IF mount.Type = sVolume
                          THEN mount.Source \o sColon \o mount.Destination
                          ELSE EmptyStr
         IN  ParseMounts(
                IF volumeStr # EmptyStr
                THEN append(volumes, IF ~mount.RW THEN volumeStr \o sRo ELSE volumeStr)
                ELSE volumes,
                Tail(mounts))

\* a variant of ParseBindings that does not look at the host port
RECURSIVE ParseBindingsAll(_, _, _)
ParseBindingsAll(ports, containerPort, bindings) ==
    IF bindings = <<>> THEN ports
    ELSE ParseBindingsAll(
            append(ports, Head(bindings).HostPort \o sColon \o SplitFirst(containerPort)),
            containerPort, Tail(bindings))

\* for _, binding := range bindings
RECURSIVE ParseBindings(_, _, _)
ParseBindings(ports, containerPort, bindings) ==
    IF bindings = <<>> THEN ports
    ELSE ParseBindings(
            IF Head(bindings).HostPort # EmptyStr
            THEN append(ports, Head(bindings).HostPort \o sColon \o SplitFirst(containerPort))
            ELSE ports,
            containerPort, Tail(bindings))

\* for containerPort, bindings := range data.NetworkSettings.Ports, visiting
\* the container ports in `order`
RECURSIVE ParsePorts(_, _, _)
ParsePorts(ports, portMap, order) ==
    IF order = <<>> THEN ports
    ELSE ParsePorts(
            IF len(portMap.m[Head(order)]) > 0
            THEN ParseBindings(ports, Head(order), portMap.m[Head(order)].items)
            ELSE ports,
            portMap, Tail(order))

\* for networkName := range data.NetworkSettings.Networks, in `order`
RECURSIVE ParseNetworks(_, _)
ParseNetworks(networks, order) ==
    IF order = <<>> THEN networks
    ELSE ParseNetworks(append(networks, Head(order)), Tail(order))

\* for _, device := range data.HostConfig.Devices
RECURSIVE ParseDevices(_, _)
ParseDevices(devices, devs) ==
    IF devs = <<>> THEN devices
    ELSE ParseDevices(
            append(devices, Head(devs).PathOnHost \o sColon \o Head(devs).PathInContainer),
            Tail(devs))

\* a variant of ParseRestart that copies the policy name as it is
ParseRestartCopy(data) == data.HostConfig.RestartPolicy.Name

ParseRestart(data) ==
    IF data.HostConfig.RestartPolicy.Name # EmptyStr /\ data.HostConfig.RestartPolicy.Name # sNo
    THEN data.HostConfig.RestartPolicy.Name
    ELSE EmptyStr

\* a variant of FirstElement that takes the last element
LastElement(inspectArray) == inspectArray.items[len(inspectArray)]

\* which element of the array the specification is built from
FirstElement(inspectArray) == inspectArray.items[1]

\* the ContainerSpec built from one InspectData
SpecFromData(data, portOrder, netOrder) ==
    [Name |-> TrimPrefix(data.Name, sSlash),
     Image |-> data.Config.Image,
     Env |-> data.Config.Env,
     Command |-> data.Config.Cmd,
     EntryPoint |-> data.Config.Entrypoint,
     Labels |-> data.Config.Labels,
     WorkingDir |-> data.Config.WorkingDir,
     Volumes |-> ParseMounts(NilSlice, data.Mounts.items),
     Ports |-> ParsePorts(NilSlice, data.NetworkSettings.Ports, portOrder),
     Networks |-> ParseNetworks(NilSlice, netOrder),
     Devices |-> ParseDevices(NilSlice, data.HostConfig.Devices.items),
     Restart |-> ParseRestart(data),
     ExtraHosts |-> data.HostConfig.ExtraHosts]

ParseInspectJSON(doc, portOrder, netOrder) ==
    LET u == Unmarshal(doc)
    IN  IF u.err THEN [spec |-> NilSpecPtr, err |-> errParseJSON]
        ELSE IF len(u.arr) = 0 THEN [spec |-> NilSpecPtr, err |-> errEmpty]
        ELSE [spec |-> SpecPtr(SpecFromData(FirstElement(u.arr), portOrder, netOrder)),
              err |-> errNone]

\* the keys the two map ranges of a call visit: those of the first element
\* when the call gets that far, none otherwise
RangedData(doc) ==
    LET u == Unmarshal(doc)
    IN  IF u.err \/ len(u.arr) = 0 THEN DecodeElem(ZeroElem) ELSE FirstElement(u.arr)

PortOrders(doc) == Orders(DOMAIN RangedData(doc).NetworkSettings.Ports.m)

NetworkOrders(doc) == Orders(DOMAIN RangedData(doc).NetworkSettings.Networks.m)

(***************************************************************************)
(* The documents handed to the parser: text that is not JSON, JSON that is *)
(* no array, the JSON null, the empty array, and arrays whose first        *)
(* element has at most MaxDocItems populated members, alone or followed by *)
(* another element.                                                        *)
(***************************************************************************)
vSlashApp == <<"/", "a", "p", "p">>
vOther == <<"/", "o", "t", "h">>
vPortKeyTcp == <<"8", "0", "/", "t", "c", "p">>
vPortKeyBare == <<"5", "3">>
vHostPort90 == <<"9", "0">>
vHostPort91 == <<"9", "1">>

Mount(type, source, destination, rw) ==
    [Type |-> type, Source |-> source, Destination |-> destination, Mode |-> EmptyStr, RW |-> rw]

Binding(hostPort) == [HostIp |-> EmptyStr, HostPort |-> hostPort]

Device(onHost, inContainer) ==
    [PathOnHost |-> onHost, PathInContainer |-> inContainer, CgroupPermissions |-> <<"r", "w", "m">>]

MountItems ==
    {Mount(sBind, <<"/", "h">>, <<"/", "c">>, rw) : rw \in BOOLEAN}
    \cup {Mount(sVolume, <<"v">>, <<"/", "d">>, rw) : rw \in BOOLEAN}
    \cup {Mount(sTmpfs, EmptyStr, <<"/", "t">>, rw) : rw \in BOOLEAN}
    \cup {Mount(sBind, EmptyStr, EmptyStr, TRUE)}

ArrayMembers == {"Env", "Cmd", "Entrypoint", "ExtraHosts", "Mounts", "Devices"}

ObjectMembers == {"Labels", "Networks", "Ports"}

DocItems ==
    {<<"string", "Name", vSlashApp>>, <<"string", "Name", vApp>>,
     <<"string", "Image", vAlpine>>, <<"string", "WorkingDir", vWork>>,
     <<"string", "RestartName", vNo>>, <<"string", "RestartName", vAlways>>,
     <<"mistyped">>}
    \cup {<<"present", f>> : f \in ArrayMembers \cup ObjectMembers}
    \cup {<<"null", f>> : f \in {"Env", "Mounts", "Labels", "Ports"}}
    \cup {<<"element", "Env", v>> : v \in {vEnvX, vEnvY}}
    \cup {<<"element", "Cmd", vEcho>>, <<"element", "Entrypoint", vSh>>,
          <<"element", "ExtraHosts", vHostH>>}
    \cup {<<"element", "Mounts", m>> : m \in MountItems}
    \cup {<<"element", "Devices", Device(<<"/", "x">>, <<"/", "x">>)>>,
          <<"element", "Devices", Device(<<"/", "y">>, <<"/", "z">>)>>}
    \cup {<<"member", "Labels", vKeyK, vValV>>, <<"member", "Labels", vKeyJ, vValU>>,
          <<"member", "Networks", vNet1, <<>>>>, <<"member", "Networks", vNet2, <<>>>>}
    \cup {<<"member", "Ports", k, JNull>> : k \in {vPortKeyTcp, vPortKeyBare}}
    \cup {<<"binding", k, h>> : k \in {vPortKeyTcp, vPortKeyBare},
                                h \in {EmptyStr, vHostPort90, vHostPort91}}

\* the element e with one more populated member; e itself when the member
\* is populated already
WithDocItem(e, it) ==
    LET f == it[2]
    IN  CASE it[1] = "mistyped" -> [e EXCEPT !.mistyped = TRUE]
          [] it[1] = "string" -> IF e[f] = EmptyStr THEN [e EXCEPT ![f] = it[3]] ELSE e
          [] it[1] = "present" ->
                IF e[f].kind = "value" THEN e
                ELSE IF f \in ArrayMembers THEN [e EXCEPT ![f] = JArray(<<>>)]
                ELSE [e EXCEPT ![f] = JObject(<<>>)]
          [] it[1] = "null" ->
                IF e[f].kind # "absent" THEN e
                ELSE IF f \in ArrayMembers THEN [e EXCEPT ![f] = JNull]
                ELSE [e EXCEPT ![f] = JNullObject]
          [] it[1] = "element" -> [e EXCEPT ![f] = JArray(Append(e[f].items, it[3]))]
          [] it[1] = "member" ->
                IF it[3] \in DOMAIN e[f].m THEN e
                ELSE [e EXCEPT ![f] = JObject((it[3] :> it[4]) @@ e[f].m)]
          [] it[1] = "binding" ->
                LET old == IF f \in DOMAIN e.Ports.m THEN e.Ports.m[f].items ELSE <<>>
                    new == JArray(Append(old, Binding(it[3])))
                IN  [e EXCEPT !.Ports =
                        JObject([k \in DOMAIN e.Ports.m \cup {f} |->
                                    IF k = f THEN new ELSE e.Ports.m[k]])]

RECURSIVE ElemsUpTo(_)
ElemsUpTo(n) ==
    IF n = 0 THEN {ZeroElem}
    ELSE LET prev == ElemsUpTo(n - 1)
         IN  prev \cup {WithDocItem(e, it) : e \in prev, it \in DocItems}

\* an element unlike any first element, and one that does not decode
OtherElem ==
    [ZeroElem EXCEPT !.Name = vOther, !.Image = vOther, !.RestartName = vNo,
                     !.Env = JArray(<<vOther>>),
                     !.Mounts = JArray(<<Mount(sBind, <<"/", "o">>, <<"/", "o">>, TRUE)>>),
                     !.Networks = JObject(vOther :> <<>>),
                     !.Ports = JObject(<<"7">> :> JArray(<<Binding(<<"7">>)>>))]

FollowingElems == {OtherElem, [OtherElem EXCEPT !.mistyped = TRUE]}

Array(es) == [kind |-> "array", elems |-> es]

Docs(n) ==
    {[kind |-> k, elems |-> <<>>] : k \in {"syntax", "scalar", "null"}}
    \cup {Array(<<>>)}
    \cup {Array(<<e>>) : e \in ElemsUpTo(n)}
    \cup {Array(<<e, x>>) : e \in ElemsUpTo(n), x \in FollowingElems}

(***************************************************************************)
(* The specifications handed to the generator: every ContainerSpec with at *)
(* most MaxSpecItems populated entries.                                    *)
(***************************************************************************)
ScalarFields == {"Name", "Image", "WorkingDir", "Restart"}

GenItems ==
    {<<"Name", vApp>>, <<"Image", vAlpine>>, <<"WorkingDir", vWork>>,
     <<"Restart", vAlways>>, <<"Restart", vNo>>,
     <<"Env", vEnvX>>, <<"Env", vEnvY>>,
     <<"Volumes", vVolA>>, <<"Volumes", vVolC>>,
     <<"Ports", vPort80>>, <<"Ports", vPort53>>,
     <<"Networks", vNet1>>, <<"Networks", vNet2>>,
     <<"Labels", <<vKeyK, vValV>>>>, <<"Labels", <<vKeyJ, vValU>>>>,
     <<"Devices", vDevX>>, <<"Devices", vDevY>>,
     <<"ExtraHosts", vHostH>>, <<"ExtraHosts", vHostG>>,
     <<"EntryPoint", vSh>>, <<"EntryPoint", vDashC>>,
     <<"Command", vEcho>>, <<"Command", vHi>>}

\* the specification s with one more entry; s itself when the entry is a
\* scalar or a label key that s has already
WithItem(s, it) ==
    LET f == it[1]
        v == it[2]
    IN  IF f \in ScalarFields
        THEN (IF s[f] = EmptyStr THEN [s EXCEPT ![f] = v] ELSE s)
        ELSE IF f = "Labels"
        THEN (IF v[1] \in DOMAIN s.Labels.m THEN s
              ELSE [s EXCEPT !.Labels = MapPut(s.Labels, v[1], v[2])])
        ELSE [s EXCEPT ![f] = append(s[f], v)]

RECURSIVE SpecsUpTo(_)
SpecsUpTo(n) ==
    IF n = 0 THEN {ZeroSpec}
    ELSE LET prev == SpecsUpTo(n - 1)
         IN  prev \cup {WithItem(s, it) : s \in prev, it \in GenItems}

GenSpecs == SpecsUpTo(MaxSpecItems)

OptsSet == {NilOpts, RunOptions(EmptyStr), RunOptions(vDev)}

(***************************************************************************)
(* Generator calls: a caller holds one specification, generates the token  *)
(* list, renders the textual variant for the same inputs, and generates    *)
(* again under other overrides.                                            *)
(***************************************************************************)
GenIdle ==
    /\ gspec = ZeroSpec
    /\ gopts = NilOpts
    /\ gorder = <<>>
    /\ args = <<>>
    /\ text = EmptyStr
    /\ torder = <<>>
    /\ prevArgs = <<>>
    /\ prevOpts = NilOpts
    /\ prevOrder = <<>>
    /\ gpc = "idle"

ParseIdle ==
    /\ pdoc = [kind |-> "null", elems |-> <<>>]
    /\ pportOrder = <<>>
    /\ pnetOrder = <<>>
    /\ presult = [spec |-> NilSpecPtr, err |-> errNone]
    /\ popts = NilOpts
    /\ plabelOrder = <<>>
    /\ pargs = <<>>
    /\ ppc = "idle"

RunIdle ==
    /\ pc = "idle"
    /\ osArgs = <<>>
    /\ containerName = EmptyStr
    /\ devContainerName = EmptyStr
    /\ devSwapDir = EmptyStr
    /\ enableDebugger = FALSE
    /\ injectScript = EmptyStr
    /\ stdout = [kind |-> "null", elems |-> <<>>]
    /\ devSpec = NilSpecPtr
    /\ runArgs = <<>>
    /\ cmds = <<>>
    /\ failed = {}
    /\ warnings = {}
    /\ elapsed = 0
    /\ createErr = "pending"
    /\ exitCode = -1
    /\ exists = FALSE
    /\ answer = EmptyStr
    /\ pollOut = "none"

GenInit ==
    /\ ParseIdle
    /\ RunIdle
    /\ gspec \in GenSpecs
    /\ gopts = NilOpts
    /\ gorder = <<>>
    /\ args = <<>>
    /\ text = EmptyStr
    /\ torder = <<>>
    /\ prevArgs = <<>>
    /\ prevOpts = NilOpts
    /\ prevOrder = <<>>
    /\ gpc = "ready"

CallGenerate ==
    /\ gpc = "ready"
    /\ \E o \in OptsSet, ord \in Orders(DOMAIN gspec.Labels.m) :
          /\ gopts' = o
          /\ gorder' = ord
          /\ args' = GenerateRunCommand(gspec, o, ord)
    /\ gpc' = "tokens"
    /\ UNCHANGED <<gspec, text, torder, prevArgs, prevOpts, prevOrder, parseVars, runVars>>

CallGenerateText ==
    /\ gpc = "tokens"
    /\ \E ord \in Orders(DOMAIN gspec.Labels.m) :
          /\ torder' = ord
          /\ text' = GenerateRunCommandText(gspec, gopts, ord)
    /\ gpc' = "text"
    /\ UNCHANGED <<gspec, gopts, gorder, args, prevArgs, prevOpts, prevOrder, parseVars, runVars>>

CallGenerateAgain ==
    /\ gpc = "text"
    /\ \E o \in OptsSet \ {gopts}, ord \in Orders(DOMAIN gspec.Labels.m) :
          /\ gopts' = o
          /\ gorder' = ord
          /\ args' = GenerateRunCommand(gspec, o, ord)
    /\ prevArgs' = args
    /\ prevOpts' = gopts
    /\ prevOrder' = gorder
    /\ gpc' = "again"
    /\ UNCHANGED <<gspec, text, torder, parseVars, runVars>>

GenNext == CallGenerate \/ CallGenerateText \/ CallGenerateAgain

SpecGen == GenInit /\ [][GenNext]_vars

(***************************************************************************)
(* Parser calls: a caller parses one document and, when that succeeds,     *)
(* generates the run arguments from the specification it got.              *)
(***************************************************************************)
ParseInit ==
    /\ GenIdle
    /\ RunIdle
    /\ pdoc \in Docs(MaxDocItems)
    /\ pportOrder = <<>>
    /\ pnetOrder = <<>>
    /\ presult = [spec |-> NilSpecPtr, err |-> errNone]
    /\ popts = NilOpts
    /\ plabelOrder = <<>>
    /\ pargs = <<>>
    /\ ppc = "ready"

CallParse ==
    /\ ppc = "ready"
    /\ \E po \in PortOrders(pdoc), no \in NetworkOrders(pdoc) :
          /\ pportOrder' = po
          /\ pnetOrder' = no
          /\ presult' = ParseInspectJSON(pdoc, po, no)
    /\ ppc' = "parsed"
    /\ UNCHANGED <<pdoc, popts, plabelOrder, pargs, genVars, runVars>>

CallGenerateParsed ==
    /\ ppc = "parsed"
    /\ presult.err = errNone
    /\ \E o \in OptsSet, ord \in Orders(DOMAIN presult.spec.v.Labels.m) :
          /\ popts' = o
          /\ plabelOrder' = ord
          /\ pargs' = GenerateRunCommand(presult.spec.v, o, ord)
    /\ ppc' = "generated"
    /\ UNCHANGED <<pdoc, pportOrder, pnetOrder, presult, genVars, runVars>>

ParseNext == CallParse \/ CallGenerateParsed

SpecParse == ParseInit /\ [][ParseNext]_vars

(***************************************************************************)
(* The command-line program: main and the Manager.  Every docker command   *)
(* is a step whose outcome the environment chooses.                        *)
(***************************************************************************)
\* waitForContainer(devContainerName, 10*time.Second); time is counted in
\* poll intervals of 500 ms
TimeoutTicks == 20

\* time.Sleep(500 * time.Millisecond), in poll intervals
SleepTicks == 1

sProgram == <<"d", "c", "e">>
sDashDev == <<"-", "d", "e", "v">>
sDevSwapMount == <<":", "/", "d", "e", "v", "-", "s", "w", "a", "p">>
sDebuggerPort == <<"2", "3", "4", "5", ":", "2", "3", "4", "5">>
sInjectScript == <<"e", "c", "h", "o">>
sY == <<"y">>
vSwapDir == <<"/", "s">>

errGetConfig == "failed to get container config: %w"
errRun == "failed to run dev container: %w"
errStart == "container failed to start: %w"
warnDebugger == "Warning: failed to install debugger: %v"
warnInject == "Warning: failed to execute inject script: %v"
warnStop == "Warning: error stopping container: %v"

\* the command lines main may be started with
ArgLists ==
    {<<sProgram>>, <<sProgram, vApp>>, <<sProgram, vApp, vDev>>,
     <<sProgram, vApp, vDev, EmptyStr>>, <<sProgram, vApp, vDev, vSwapDir>>}

\* what docker inspect may print: the documents without a populated first
\* element, and one container with a mount, a published port and a label
SampleElem ==
    [ZeroElem EXCEPT !.Name = vSlashApp, !.Image = vAlpine, !.RestartName = vAlways,
                     !.Mounts = JArray(<<Mount(sBind, <<"/", "h">>, <<"/", "c">>, FALSE)>>),
                     !.Ports = JObject(vPortKeyTcp :> JArray(<<Binding(vHostPort90)>>)),
                     !.Labels = JObject(vKeyK :> vValV),
                     !.Cmd = JArray(<<vEcho>>)]

InspectOutputs == Docs(0) \cup {Array(<<SampleElem>>)}

\* strings.ToLower(strings.TrimSpace(answer)) for the answers drawn
Answers == {<<"y">>, <<"Y">>, <<"n">>, EmptyStr}

ToLower(s) == [i \in 1..Len(s) |-> IF s[i] = "Y" THEN "y" ELSE s[i]]

\* executeDockerRun: exec.Command("docker", append([]string{"run", "-d"}, args...)...)
sDashD == <<"-", "d">>

DockerRunArgs(a) == <<sRun, sDashD>> \o a

\* a variant of WithDevSwap that puts the dev-swap volume before the parsed ones
WithDevSwapFirst(sp, dir) ==
    IF dir # EmptyStr
    THEN [sp EXCEPT !.Volumes = [nil |-> FALSE,
                                 items |-> <<dir \o sDevSwapMount>> \o sp.Volumes.items]]
    ELSE sp

\* Step 2 of CreateDevContainer
WithDevSwap(sp, dir) ==
    IF dir # EmptyStr THEN [sp EXCEPT !.Volumes = append(sp.Volumes, dir \o sDevSwapMount)]
    ELSE sp

WithDebuggerPort(sp, enable) ==
    IF enable THEN [sp EXCEPT !.Ports = append(sp.Ports, sDebuggerPort)] ELSE sp

\* where CreateDevContainer goes on after the debugger step
ToInject ==
    IF injectScript # EmptyStr THEN [pc |-> "inject", err |-> "pending"]
    ELSE [pc |-> "returned", err |-> errNone]

\* where CreateDevContainer goes on once the container runs
ToDebugger ==
    IF enableDebugger THEN [pc |-> "dbg_which", err |-> "pending"] ELSE ToInject

RunInit ==
    /\ GenIdle
    /\ ParseIdle
    /\ pc = "main"
    /\ osArgs \in ArgLists
    /\ containerName = EmptyStr
    /\ devContainerName = EmptyStr
    /\ devSwapDir = EmptyStr
    /\ enableDebugger = FALSE
    /\ injectScript = EmptyStr
    /\ stdout = [kind |-> "null", elems |-> <<>>]
    /\ devSpec = NilSpecPtr
    /\ runArgs = <<>>
    /\ cmds = <<>>
    /\ failed = {}
    /\ warnings = {}
    /\ elapsed = 0
    /\ createErr = "pending"
    /\ exitCode = -1
    /\ exists = FALSE
    /\ answer = EmptyStr
    /\ pollOut = "none"

\* main: the arguments and NewManager
MainArgs ==
    /\ pc = "main"
    /\ IF Len(osArgs) < 2
       THEN /\ pc' = "exited"
            /\ exitCode' = 1
            /\ UNCHANGED <<containerName, devContainerName, devSwapDir>>
       ELSE /\ containerName' = osArgs[2]
            /\ devContainerName' = IF Len(osArgs) >= 3 THEN osArgs[3] ELSE osArgs[2] \o sDashDev
            /\ devSwapDir' = IF Len(osArgs) >= 4 THEN osArgs[4] ELSE EmptyStr
            /\ pc' = "check"
            /\ UNCHANGED exitCode
    /\ UNCHANGED <<osArgs, enableDebugger, injectScript, stdout, devSpec, runArgs, cmds,
                   failed, warnings, elapsed, createErr, exists, answer, pollOut,
                   genVars, parseVars>>

\* manager.CheckDevContainerExists and main's handling of its result
CheckDevContainerExists ==
    /\ pc = "check"
    /\ cmds' = Append(cmds, "ps")
    /\ \E outcome \in {"error", "exists", "absent"} :
          CASE outcome = "error" ->
                  /\ failed' = failed \cup {"ps"}
                  /\ exists' = FALSE
                  /\ pc' = "exited"
                  /\ exitCode' = 1
            [] outcome = "exists" ->
                  /\ exists' = TRUE
                  /\ pc' = "prompt"
                  /\ UNCHANGED <<failed, exitCode>>
            [] outcome = "absent" ->
                  /\ exists' = FALSE
                  /\ pc' = "call_create"
                  /\ UNCHANGED <<failed, exitCode>>
    /\ UNCHANGED <<osArgs, containerName, devContainerName, devSwapDir, enableDebugger,
                   injectScript, stdout, devSpec, runArgs, warnings, elapsed, createErr,
                   answer, pollOut,
                   genVars, parseVars>>

\* the prompt "Do you want to recreate it? (y/n)"
Prompt ==
    /\ pc = "prompt"
    /\ answer' \in Answers
    /\ IF ToLower(answer') = sY
       THEN /\ pc' = "stop"
            /\ UNCHANGED exitCode
       ELSE /\ pc' = "exited"
            /\ exitCode' = 0
    /\ UNCHANGED <<osArgs, containerName, devContainerName, devSwapDir, enableDebugger,
                   injectScript, stdout, devSpec, runArgs, cmds, failed, warnings, elapsed,
                   createErr, exists, pollOut,
                   genVars, parseVars>>

\* manager.StopDevContainer: a failure is logged as a warning
StopDevContainer ==
    /\ pc = "stop"
    /\ cmds' = Append(cmds, "stop")
    /\ \E ok \in BOOLEAN :
          IF ok THEN UNCHANGED <<failed, warnings>>
          ELSE /\ failed' = failed \cup {"stop"}
               /\ warnings' = warnings \cup {warnStop}
    /\ pc' = "remove"
    /\ UNCHANGED <<osArgs, containerName, devContainerName, devSwapDir, enableDebugger,
                   injectScript, stdout, devSpec, runArgs, elapsed, createErr, exitCode,
                   exists, answer, pollOut,
                   genVars, parseVars>>

\* a variant of RemoveDevContainer whose failure main only logs
RemoveFailureLogged ==
    /\ pc = "remove"
    /\ cmds' = Append(cmds, "rm")
    /\ \E ok \in BOOLEAN :
          IF ok THEN UNCHANGED failed ELSE failed' = failed \cup {"rm"}
    /\ pc' = "call_create"
    /\ UNCHANGED <<osArgs, containerName, devContainerName, devSwapDir, enableDebugger,
                   injectScript, stdout, devSpec, runArgs, warnings, elapsed, createErr,
                   exitCode, exists, answer, pollOut, genVars, parseVars>>

\* manager.RemoveDevContainer: a failure ends the program
RemoveDevContainer ==
    /\ pc = "remove"
    /\ cmds' = Append(cmds, "rm")
    /\ \E ok \in BOOLEAN :
          IF ok
          THEN /\ pc' = "call_create"
               /\ UNCHANGED <<failed, exitCode>>
          ELSE /\ failed' = failed \cup {"rm"}
               /\ pc' = "exited"
               /\ exitCode' = 1
    /\ UNCHANGED <<osArgs, containerName, devContainerName, devSwapDir, enableDebugger,
                   injectScript, stdout, devSpec, runArgs, warnings, elapsed, createErr,
                   exists, answer, pollOut,
                   genVars, parseVars>>

\* main: manager.CreateDevContainer(devContainerName, true, injectScript)
CallCreateDevContainer ==
    /\ pc = "call_create"
    /\ enableDebugger' = TRUE
    /\ injectScript' = sInjectScript
    /\ pc' = "inspect"
    /\ UNCHANGED <<osArgs, containerName, devContainerName, devSwapDir, stdout, devSpec,
                   runArgs, cmds, failed, warnings, elapsed, createErr, exitCode,
                   exists, answer, pollOut,
                   genVars, parseVars>>

\* GetContainerConfig: docker inspect <containerName>
InspectContainer ==
    /\ pc = "inspect"
    /\ cmds' = Append(cmds, "inspect")
    /\ \E ok \in BOOLEAN :
          IF ok
          THEN /\ stdout' \in InspectOutputs
               /\ pc' = "parse"
               /\ UNCHANGED <<failed, createErr>>
          ELSE /\ failed' = failed \cup {"inspect"}
               /\ createErr' = errGetConfig
               /\ pc' = "returned"
               /\ UNCHANGED stdout
    /\ UNCHANGED <<osArgs, containerName, devContainerName, devSwapDir, enableDebugger,
                   injectScript, devSpec, runArgs, warnings, elapsed, exitCode,
                   exists, answer, pollOut,
                   genVars, parseVars>>

\* GetContainerConfig: ParseInspectJSON; CreateDevContainer, steps 2 and 3 up
\* to the generated arguments
ParseAndGenerate ==
    /\ pc = "parse"
    /\ \E po \in PortOrders(stdout), no \in NetworkOrders(stdout),
          lo \in Orders(DOMAIN RangedData(stdout).Config.Labels.m) :
          LET r == ParseInspectJSON(stdout, po, no)
          IN  IF r.err # errNone
              THEN /\ failed' = failed \cup {"parse"}
                   /\ createErr' = errGetConfig
                   /\ pc' = "returned"
                   /\ UNCHANGED <<devSpec, runArgs>>
              ELSE LET sp == WithDebuggerPort(WithDevSwap(r.spec.v, devSwapDir), enableDebugger)
                   IN  /\ devSpec' = SpecPtr(sp)
                       /\ runArgs' = GenerateRunCommand(sp, RunOptions(devContainerName), lo)
                       /\ pc' = "run"
                       /\ UNCHANGED <<failed, createErr>>
    /\ UNCHANGED <<osArgs, containerName, devContainerName, devSwapDir, enableDebugger,
                   injectScript, stdout, cmds, warnings, elapsed, exitCode,
                   exists, answer, pollOut,
                   genVars, parseVars>>

\* executeDockerRun: docker run -d <runArgs>; then waitForContainer sets its
\* deadline
ExecuteDockerRun ==
    /\ pc = "run"
    /\ cmds' = Append(cmds, "run")
    /\ \E ok \in BOOLEAN :
          IF ok
          THEN /\ pc' = "wait"
               /\ elapsed' = 0
               /\ UNCHANGED <<failed, createErr>>
          ELSE /\ failed' = failed \cup {"run"}
               /\ createErr' = errRun
               /\ pc' = "returned"
               /\ UNCHANGED elapsed
    /\ UNCHANGED <<osArgs, containerName, devContainerName, devSwapDir, enableDebugger,
                   injectScript, stdout, devSpec, runArgs, warnings, exitCode,
                   exists, answer, pollOut,
                   genVars, parseVars>>

\* waitForContainer: for time.Now().Before(deadline)
WaitLoop ==
    /\ pc = "wait"
    /\ IF elapsed < TimeoutTicks
       THEN /\ pc' = "poll"
            /\ UNCHANGED <<failed, createErr>>
       ELSE /\ failed' = failed \cup {"wait"}
            /\ createErr' = errStart
            /\ pc' = "returned"
    /\ UNCHANGED <<osArgs, containerName, devContainerName, devSwapDir, enableDebugger,
                   injectScript, stdout, devSpec, runArgs, cmds, warnings, elapsed,
                   exitCode, exists, answer, pollOut,
                   genVars, parseVars>>

\* waitForContainer: docker inspect -f {{.State.Running}}, which takes some
\* time, fails, or prints the state
Poll ==
    /\ pc = "poll"
    /\ cmds' = Append(cmds, "poll")
    /\ \E d \in 0..MaxPollTicks : elapsed' = elapsed + d
    /\ pollOut' \in {"error", "false", "true"}
    /\ IF pollOut' = "true"
       THEN /\ pc' = ToDebugger.pc
            /\ createErr' = ToDebugger.err
       ELSE /\ pc' = "sleep"
            /\ UNCHANGED createErr
    /\ UNCHANGED <<osArgs, containerName, devContainerName, devSwapDir, enableDebugger,
                   injectScript, stdout, devSpec, runArgs, failed, warnings, exitCode,
                   exists, answer,
                   genVars, parseVars>>

\* a variant of Sleep during which no time passes
SleepNoTime ==
    /\ pc = "sleep"
    /\ elapsed' = elapsed
    /\ pc' = "wait"
    /\ UNCHANGED <<osArgs, containerName, devContainerName, devSwapDir, enableDebugger,
                   injectScript, stdout, devSpec, runArgs, cmds, failed, warnings,
                   createErr, exitCode, exists, answer, pollOut,
                   genVars, parseVars>>

\* waitForContainer: time.Sleep(500 * time.Millisecond)
Sleep ==
    /\ pc = "sleep"
    /\ elapsed' = elapsed + SleepTicks
    /\ pc' = "wait"
    /\ UNCHANGED <<osArgs, containerName, devContainerName, devSwapDir, enableDebugger,
                   injectScript, stdout, devSpec, runArgs, cmds, failed, warnings,
                   createErr, exitCode, exists, answer, pollOut,
                   genVars, parseVars>>

\* a variant of DebuggerFailed that returns the error of installDebugger
DebuggerFailedFatal ==
    /\ failed' = failed \cup {"debugger"}
    /\ UNCHANGED warnings
    /\ pc' = "returned"
    /\ createErr' = "failed to install debugger: %w"

\* what CreateDevContainer does when installDebugger returns an error: it
\* logs a warning and goes on
DebuggerFailed ==
    /\ failed' = failed \cup {"debugger"}
    /\ warnings' = warnings \cup {warnDebugger}
    /\ pc' = ToInject.pc
    /\ createErr' = ToInject.err

\* installDebugger: docker exec <name> which go
DebuggerWhichGo ==
    /\ pc = "dbg_which"
    /\ cmds' = Append(cmds, "exec which go")
    /\ \E ok \in BOOLEAN :
          IF ok
          THEN /\ pc' = "dbg_install"
               /\ UNCHANGED <<failed, warnings, createErr>>
          ELSE DebuggerFailed
    /\ UNCHANGED <<osArgs, containerName, devContainerName, devSwapDir, enableDebugger,
                   injectScript, stdout, devSpec, runArgs, elapsed, exitCode,
                   exists, answer, pollOut,
                   genVars, parseVars>>

\* installDebugger: docker exec <name> go install .../dlv@latest
DebuggerInstall ==
    /\ pc = "dbg_install"
    /\ cmds' = Append(cmds, "exec go install")
    /\ \E ok \in BOOLEAN :
          IF ok
          THEN /\ pc' = "dbg_verify"
               /\ UNCHANGED <<failed, warnings, createErr>>
          ELSE DebuggerFailed
    /\ UNCHANGED <<osArgs, containerName, devContainerName, devSwapDir, enableDebugger,
                   injectScript, stdout, devSpec, runArgs, elapsed, exitCode,
                   exists, answer, pollOut,
                   genVars, parseVars>>

\* installDebugger: docker exec <name> sh -c "command -v dlv || echo ..."
DebuggerVerify ==
    /\ pc = "dbg_verify"
    /\ cmds' = Append(cmds, "exec verify")
    /\ \E outcome \in {"error", "not found", "found"} :
          IF outcome = "found"
          THEN /\ pc' = ToInject.pc
               /\ createErr' = ToInject.err
               /\ UNCHANGED <<failed, warnings>>
          ELSE DebuggerFailed
    /\ UNCHANGED <<osArgs, containerName, devContainerName, devSwapDir, enableDebugger,
                   injectScript, stdout, devSpec, runArgs, elapsed, exitCode,
                   exists, answer, pollOut,
                   genVars, parseVars>>

\* what CreateDevContainer does when executeInContainer returns an error: it
\* logs a warning and returns nil
InjectFailed ==
    /\ failed' = failed \cup {"inject"}
    /\ warnings' = warnings \cup {warnInject}
    /\ createErr' = errNone

\* executeInContainer: docker exec <name> sh -c <injectScript>
ExecuteInContainer ==
    /\ pc = "inject"
    /\ cmds' = Append(cmds, "exec inject")
    /\ \E ok \in BOOLEAN :
          IF ok
          THEN /\ createErr' = errNone
               /\ UNCHANGED <<failed, warnings>>
          ELSE InjectFailed
    /\ pc' = "returned"
    /\ UNCHANGED <<osArgs, containerName, devContainerName, devSwapDir, enableDebugger,
                   injectScript, stdout, devSpec, runArgs, elapsed, exitCode,
                   exists, answer, pollOut,
                   genVars, parseVars>>

\* main: log.Fatalf on an error of CreateDevContainer, the success message
\* otherwise
MainFinish ==
    /\ pc = "returned"
    /\ exitCode' = IF createErr # errNone THEN 1 ELSE 0
    /\ pc' = "exited"
    /\ UNCHANGED <<osArgs, containerName, devContainerName, devSwapDir, enableDebugger,
                   injectScript, stdout, devSpec, runArgs, cmds, failed, warnings, elapsed,
                   createErr, exists, answer, pollOut,
                   genVars, parseVars>>

Next ==
    \/ MainArgs
    \/ CheckDevContainerExists
    \/ Prompt
    \/ StopDevContainer
    \/ RemoveDevContainer
    \/ CallCreateDevContainer
    \/ InspectContainer
    \/ ParseAndGenerate
    \/ ExecuteDockerRun
    \/ WaitLoop
    \/ Poll
    \/ Sleep
    \/ DebuggerWhichGo
    \/ DebuggerInstall
    \/ DebuggerVerify
    \/ ExecuteInContainer
    \/ MainFinish

Spec == RunInit /\ [][Next]_vars

\* main runs alone and each statement it reaches is executed: the loop of
\* waitForContainer takes its next step, a docker inspect that was started
\* returns, and a sleep ends
FairSpec ==
    /\ RunInit
    /\ [][Next]_vars
    /\ WF_vars(WaitLoop)
    /\ WF_vars(Poll)
    /\ WF_vars(Sleep)

(***************************************************************************)
(* Notions the properties are stated in.                                   *)
(***************************************************************************)
\* a generator call has returned: args is its result for gspec, gopts, gorder
Generated == gpc \in {"tokens", "text", "again"}

\* one <<flag, x>> pair per element of xs, in the order of xs
Flagged(flag, xs) == [i \in 1..(2 * Len(xs)) |-> IF i % 2 = 1 THEN flag ELSE xs[i \div 2]]

\* the pair <<flag, v>> when v is non-empty, nothing otherwise
Optional(flag, v) == IF v = EmptyStr THEN <<>> ELSE <<flag, v>>

\* the name the --name flag is expected to carry
EffectiveName(spec, opts) ==
    IF ~opts.nil /\ opts.Name # EmptyStr THEN opts.Name ELSE spec.Name

\* the key=value strings of the labels, visited in `order`
LabelEntries(spec, order) ==
    [i \in 1..Len(order) |-> order[i] \o <<"=">> \o spec.Labels.m[order[i]]]

\* how many positions of the list a hold an element of the set S
CountIn(a, S) == Cardinality({i \in 1..Len(a) : a[i] \in S})

Range(q) == {q[i] : i \in 1..Len(q)}

\* how often token t occurs in the list a
Occurrences(a, t) == Cardinality({i \in 1..Len(a) : a[i] = t})

\* two token lists hold the same tokens the same number of times
SameTokens(a, b) ==
    /\ Len(a) = Len(b)
    /\ \A t \in Range(a) \cup Range(b) : Occurrences(a, t) = Occurrences(b, t)

\* the fields of a display string: split at blanks outside double quotes,
\* the quotes and the escaping backslashes removed
RECURSIVE ScanFields(_, _, _, _, _)
ScanFields(s, inq, cur, started, out) ==
    IF s = <<>> THEN (IF started THEN Append(out, cur) ELSE out)
    ELSE IF inq
    THEN (IF Head(s) = "\\" /\ Len(s) >= 2
          THEN ScanFields(Tail(Tail(s)), TRUE, Append(cur, s[2]), TRUE, out)
          ELSE IF Head(s) = "\""
          THEN ScanFields(Tail(s), FALSE, cur, TRUE, out)
          ELSE ScanFields(Tail(s), TRUE, Append(cur, Head(s)), TRUE, out))
    ELSE (IF Head(s) = " "
          THEN (IF started THEN ScanFields(Tail(s), FALSE, <<>>, FALSE, Append(out, cur))
                ELSE ScanFields(Tail(s), FALSE, <<>>, FALSE, out))
          ELSE IF Head(s) = "\""
          THEN ScanFields(Tail(s), TRUE, cur, TRUE, out)
          ELSE ScanFields(Tail(s), FALSE, Append(cur, Head(s)), TRUE, out))

Fields(s) == ScanFields(s, FALSE, <<>>, FALSE, <<>>)

(***************************************************************************)
(* Properties of the generator, stated for SpecGen.                        *)
(***************************************************************************)
\* C1: the token list is the concatenation, in this order, of the optional
\* --name pair, the -e, -v, -p and --network pairs, the optional -w pair, one
\* -l key=value pair per label (each label once, in some order), the --device
\* and --add-host pairs, the optional --restart and --entrypoint pairs, the
\* image (always, even when empty) and the command arguments; the list-typed
\* groups keep the specification's order.
C1_TokenSequence ==
    Generated =>
        \E ord \in Orders(DOMAIN gspec.Labels.m) :
            args = Optional(flagName, EffectiveName(gspec, gopts))
                   \o Flagged(flagE, gspec.Env.items)
                   \o Flagged(flagV, gspec.Volumes.items)
                   \o Flagged(flagP, gspec.Ports.items)
                   \o Flagged(flagNetwork, gspec.Networks.items)
                   \o Optional(flagW, gspec.WorkingDir)
                   \o Flagged(flagL, LabelEntries(gspec, ord))
                   \o Flagged(flagDevice, gspec.Devices.items)
                   \o Flagged(flagAddHost, gspec.ExtraHosts.items)
                   \o Optional(flagRestart, gspec.Restart)
                   \o (IF gspec.EntryPoint.items = <<>> THEN <<>>
                       ELSE <<flagEntrypoint, gspec.EntryPoint.items[1]>>)
                   \o <<gspec.Image>>
                   \o gspec.Command.items

\* a call on a specification with a volume, a port and a command has returned
C1_Witness ==
    /\ gpc = "tokens"
    /\ len(gspec.Volumes) > 0
    /\ len(gspec.Ports) > 0
    /\ len(gspec.Command) > 0
    /\ Len(args) = 6

\* what a call's result holds after its --name pair
AfterName(a, spec, opts) ==
    IF EffectiveName(spec, opts) = EmptyStr THEN a ELSE SubSeq(a, 3, Len(a))

\* C2: the first two tokens are --name n, n the overrides' name when overrides
\* are present with a non-empty name and the specification's name otherwise;
\* no --name token at all when that name is empty; and a second call that
\* differs only in the overrides returns the same tokens after the --name
\* pair (the same list when the labels are visited in the same order).
C2_NameFlag ==
    /\ Generated =>
          LET n == IF ~gopts.nil /\ gopts.Name # EmptyStr THEN gopts.Name ELSE gspec.Name
          IN  IF n = EmptyStr
              THEN Occurrences(args, flagName) = 0
              ELSE /\ Len(args) >= 2
                   /\ args[1] = flagName
                   /\ args[2] = n
                   /\ Occurrences(args, flagName) = 1
    /\ gpc = "again" =>
          LET now == AfterName(args, gspec, gopts)
              before == AfterName(prevArgs, gspec, prevOpts)
          IN  /\ SameTokens(now, before)
              /\ gorder = prevOrder => now = before

\* the overrides' name replaced the specification's name in a second call
C2_Witness ==
    /\ gpc = "again"
    /\ gspec.Name = vApp
    /\ gopts = RunOptions(vDev)
    /\ prevOpts = NilOpts
    /\ prevArgs[2] = vApp
    /\ args[2] = vDev
    /\ Len(args) > 3

\* C3: --entrypoint appears at most once: never for an empty entrypoint, and
\* for a non-empty one exactly the pair --entrypoint <first element> right
\* before the image, no other entrypoint element being emitted.
C3_EntrypointOnce ==
    Generated =>
        LET eps == gspec.EntryPoint.items
            img == Len(args) - len(gspec.Command)
        IN  IF eps = <<>>
            THEN Occurrences(args, flagEntrypoint) = 0
            ELSE /\ Occurrences(args, flagEntrypoint) = 1
                 /\ img >= 3
                 /\ args[img - 2] = flagEntrypoint
                 /\ args[img - 1] = eps[1]
                 /\ CountIn(args, Range(eps)) = 1

\* a call on a specification whose entrypoint has a second, different element
C3_Witness ==
    /\ gpc = "tokens"
    /\ len(gspec.EntryPoint) >= 2
    /\ gspec.EntryPoint.items[1] # gspec.EntryPoint.items[2]
    /\ Occurrences(args, flagEntrypoint) = 1

\* C8: the textual variant and the token variant agree in field order and
\* content: the fields of the text, its quoting stripped, are the token list
\* (compared for calls that visit the labels in the same order).
C8_TextEqualsTokens ==
    (gpc = "text" /\ torder = gorder) => Fields(text) = args

(***************************************************************************)
(* Properties of the parser, stated for SpecParse.                         *)
(***************************************************************************)
\* a parser call has returned
Parsed == ppc \in {"parsed", "generated"}

\* a parser call has returned a specification
ParsedOk == Parsed /\ presult.err = errNone

\* the text does not deserialize into an array of inspection objects
NotDeserializable ==
    \/ pdoc.kind \in {"syntax", "scalar"}
    \/ \E i \in 1..Len(pdoc.elems) : pdoc.elems[i].mistyped

\* C4: the call fails, returning no specification, in exactly two cases told
\* apart by the error: the text does not deserialize (failed to parse JSON),
\* or it deserializes to zero elements (empty inspect data; the JSON null
\* deserializes to a slice of zero elements); otherwise it succeeds and the
\* result is that of the document cut down to its first element.
C4_ParseFailures ==
    Parsed =>
        /\ presult.err = errParseJSON <=> NotDeserializable
        /\ presult.err = errEmpty <=> (~NotDeserializable /\ Len(pdoc.elems) = 0)
        /\ presult.err = errNone <=> (~NotDeserializable /\ Len(pdoc.elems) >= 1)
        /\ presult.err # errNone <=> presult.spec.nil
        /\ presult.err = errNone =>
              /\ presult.spec.v.Image = pdoc.elems[1].Image
              /\ presult.spec.v.Env.items = pdoc.elems[1].Env.items
              /\ Range(presult.spec.v.Networks.items) = DOMAIN pdoc.elems[1].Networks.m
              /\ Range(pportOrder) = DOMAIN pdoc.elems[1].Ports.m
              /\ presult = ParseInspectJSON(Array(<<pdoc.elems[1]>>), pportOrder, pnetOrder)

\* a document of two elements was parsed into the specification of the first
C4_Witness ==
    /\ ppc = "parsed"
    /\ Len(pdoc.elems) = 2
    /\ presult.err = errNone
    /\ pdoc.elems[1].Name = vSlashApp
    /\ presult.spec.v.Name = vApp

\* the volume entry a bind or volume mount record stands for
VolumeEntry(m) ==
    m.Source \o <<":">> \o m.Destination \o (IF m.RW THEN <<>> ELSE <<":", "r", "o">>)

IsBindOrVolume(m) == m.Type \in {sBind, sVolume}

\* C5: the volumes are, in record order, one entry per mount record of type
\* bind or volume: source:destination, with :ro appended when the record is
\* not read-write; records of another type contribute nothing.
C5_MountTranslation ==
    ParsedOk =>
        LET kept == SelectSeq(pdoc.elems[1].Mounts.items, IsBindOrVolume)
        IN  presult.spec.v.Volumes.items = [i \in 1..Len(kept) |-> VolumeEntry(kept[i])]

\* a tmpfs record was skipped and a read-only record got its suffix
C5_Witness ==
    /\ ParsedOk
    /\ Len(pdoc.elems[1].Mounts.items) = 2
    /\ pdoc.elems[1].Mounts.items[1].Type = sTmpfs
    /\ ~pdoc.elems[1].Mounts.items[2].RW
    /\ presult.spec.v.Volumes.items = <<<<"/", "h", ":", "/", "c", ":", "r", "o">>>>

\* the container side of a port key: the key up to its first "/"
ContainerSide(k) ==
    LET slashes == {i \in 1..Len(k) : k[i] = "/"}
    IN  IF slashes = {} THEN k
        ELSE SubSeq(k, 1, (CHOOSE i \in slashes : \A j \in slashes : i <= j) - 1)

\* the bindings of container port k in the first element of the document
BindingsOf(k) == pdoc.elems[1].Ports.m[k].items

HasHostPort(b) == b.HostPort # EmptyStr

\* the entries container port k stands for: one per binding with a host port
PortEntries(k) ==
    LET kept == SelectSeq(BindingsOf(k), HasHostPort)
    IN  [i \in 1..Len(kept) |-> kept[i].HostPort \o <<":">> \o ContainerSide(k)]

RECURSIVE PortEntriesInOrder(_)
PortEntriesInOrder(order) ==
    IF order = <<>> THEN <<>>
    ELSE PortEntries(Head(order)) \o PortEntriesInOrder(Tail(order))

\* the entries of the parsed specification that belong to container port k
EntriesFor(k) ==
    SelectSeq(presult.spec.v.Ports.items,
              LAMBDA e : /\ Len(e) > Len(ContainerSide(k))
                         /\ SubSeq(e, Len(e) - Len(ContainerSide(k)), Len(e))
                               = <<":">> \o ContainerSide(k))

\* C6 as stated: a container port with at least one binding that has a host
\* port gets one entry per binding, any other container port gets none.
C6_OneEntryPerBinding ==
    ParsedOk =>
        \A k \in DOMAIN pdoc.elems[1].Ports.m :
            IF \E i \in 1..Len(BindingsOf(k)) : HasHostPort(BindingsOf(k)[i])
            THEN Len(EntriesFor(k)) = Len(BindingsOf(k))
            ELSE Len(EntriesFor(k)) = 0

\* C6, amended: the ports are, container port after container port in some
\* order, one hostPort:containerPort entry per binding whose host port is
\* non-empty, in binding order, the container side cut at its first "/";
\* equal entries are all kept.
C6_OneEntryPerHostPort ==
    ParsedOk =>
        \E order \in Orders(DOMAIN pdoc.elems[1].Ports.m) :
            presult.spec.v.Ports.items = PortEntriesInOrder(order)

\* two bindings of one container port to the same host port gave two entries
C6_Witness ==
    /\ ParsedOk
    /\ DOMAIN pdoc.elems[1].Ports.m = {vPortKeyTcp}
    /\ Len(BindingsOf(vPortKeyTcp)) = 2
    /\ presult.spec.v.Ports.items = <<<<"9", "0", ":", "8", "0">>, <<"9", "0", ":", "8", "0">>>>

\* the collection fields of a specification
NoNilCollection(sp) ==
    /\ ~sp.Env.nil
    /\ ~sp.Volumes.nil
    /\ ~sp.Ports.nil
    /\ ~sp.Networks.nil
    /\ ~sp.Command.nil
    /\ ~sp.EntryPoint.nil
    /\ ~sp.Labels.nil
    /\ ~sp.Devices.nil
    /\ ~sp.ExtraHosts.nil

AllCollectionsEmpty(sp) ==
    /\ len(sp.Env) = 0
    /\ len(sp.Volumes) = 0
    /\ len(sp.Ports) = 0
    /\ len(sp.Networks) = 0
    /\ len(sp.Command) = 0
    /\ len(sp.EntryPoint) = 0
    /\ DOMAIN sp.Labels.m = {}
    /\ len(sp.Devices) = 0
    /\ len(sp.ExtraHosts) = 0

\* the first element has its image and none of the optional sections
MinimalDocument ==
    /\ Len(pdoc.elems) = 1
    /\ pdoc.elems[1].Image # EmptyStr
    /\ \A f \in ArrayMembers : pdoc.elems[1][f].kind = "absent"
    /\ \A f \in ObjectMembers : pdoc.elems[1][f].kind = "absent"

\* C7: after a successful parse no collection field of the specification is
\* nil, whether its section was absent or empty; a minimal document gives a
\* specification with every collection empty and the name without its
\* leading "/".
C7_NoNilCollection ==
    ParsedOk =>
        /\ NoNilCollection(presult.spec.v)
        /\ MinimalDocument =>
              /\ AllCollectionsEmpty(presult.spec.v)
              /\ presult.spec.v.Name =
                    (IF pdoc.elems[1].Name # <<>> /\ Head(pdoc.elems[1].Name) = "/"
                     THEN Tail(pdoc.elems[1].Name) ELSE pdoc.elems[1].Name)

\* C9: the restart field is the restart-policy name when that is non-empty
\* and not "no", and empty otherwise; the arguments generated from a parsed
\* specification hold --restart once, followed by that name, when the field
\* is non-empty, and never otherwise: never --restart no, never --restart
\* with an empty value.
C9_RestartPolicy ==
    /\ ParsedOk =>
          LET name == pdoc.elems[1].RestartName
          IN  presult.spec.v.Restart = (IF name \in {EmptyStr, vNo} THEN EmptyStr ELSE name)
    /\ ppc = "generated" =>
          /\ \A i \in 1..Len(pargs) :
                pargs[i] = flagRestart =>
                    /\ i < Len(pargs)
                    /\ pargs[i + 1] \notin {vNo, EmptyStr}
                    /\ pargs[i + 1] = pdoc.elems[1].RestartName
          /\ pdoc.elems[1].RestartName \in {EmptyStr, vNo} =>
                Occurrences(pargs, flagRestart) = 0

\* arguments were generated from a document whose restart policy is "no"
C9_Witness ==
    /\ ppc = "generated"
    /\ pdoc.elems[1].RestartName = vNo
    /\ presult.spec.v.Restart = EmptyStr
    /\ Occurrences(pargs, flagRestart) = 0

(***************************************************************************)
(* Properties of the command-line program, stated for Spec.                *)
(***************************************************************************)
\* the steps of CreateDevContainer whose failure it returns as an error
FatalSteps == {"inspect", "parse", "run", "wait"}

\* CreateDevContainer has returned
Returned == createErr # "pending"

\* C10: CreateDevContainer returns an error exactly when the inspection or
\* its parsing, docker run or the readiness wait failed, and main then exits
\* with status 1; a failure of the debugger installation or of the injected
\* command is logged as a warning, never becomes the returned error, and the
\* operation returns nil.
C10_FatalOrWarning ==
    /\ Returned =>
          /\ createErr # errNone <=> failed \cap FatalSteps # {}
          /\ failed \cap {"inspect", "parse"} # {} => createErr = errGetConfig
          /\ "run" \in failed => createErr = errRun
          /\ "wait" \in failed => createErr = errStart
    /\ "debugger" \in failed => warnDebugger \in warnings /\ createErr \in {"pending", errNone}
    /\ "inject" \in failed => warnInject \in warnings /\ createErr = errNone
    /\ (pc = "exited" /\ Returned) => exitCode = (IF createErr = errNone THEN 0 ELSE 1)

\* the debugger installation and the injected command both failed and
\* CreateDevContainer returned nil
C10_Witness ==
    /\ pc = "returned"
    /\ {"debugger", "inject"} \subseteq failed
    /\ createErr = errNone
    /\ warnings = {warnDebugger, warnInject}


(***************************************************************************)
(* Properties of waitForContainer, stated for FairSpec.                    *)
(***************************************************************************)

\* control is inside waitForContainer
Waiting == pc \in {"wait", "poll", "sleep"}

\* waitForContainer returned nil and CreateDevContainer went on
WaitSucceeded ==
    \/ pc \in {"dbg_which", "dbg_install", "dbg_verify", "inject"}
    \/ Returned /\ "run" \in Range(cmds) /\ createErr \notin {errRun, errStart}

\* waitForContainer returned its timeout error
WaitTimedOut == Returned /\ createErr = errStart

\* one step of waitForContainer
WaitStep ==
    /\ (pc = "wait" /\ elapsed < TimeoutTicks) => (pc' = "poll" /\ elapsed' = elapsed)
    /\ (pc = "wait" /\ elapsed >= TimeoutTicks) => WaitTimedOut'
    /\ (pc = "poll" /\ pollOut' = "true") => WaitSucceeded'
    /\ (pc = "poll" /\ pollOut' # "true") =>
          (pc' = "sleep" /\ createErr' = createErr /\ elapsed' >= elapsed)
    /\ pc = "sleep" => (pc' = "wait" /\ elapsed' = elapsed + SleepTicks)

\* C11: waitForContainer always terminates.  It returns nil as soon as one
\* poll printed true, and only then; it returns the timeout error once the
\* deadline has passed, and only then; a poll that failed or printed
\* something else is followed by the sleep of the fixed interval and the
\* next test of the deadline.
C11_WaitTerminates ==
    /\ [][WaitStep]_vars
    /\ [](WaitSucceeded => pollOut = "true")
    /\ [](WaitTimedOut => (elapsed >= TimeoutTicks /\ pollOut # "true"))
    /\ (Waiting ~> (WaitSucceeded \/ WaitTimedOut))

\* the wait timed out after a poll whose command failed
C11_Witness ==
    /\ WaitTimedOut
    /\ pollOut = "error"
    /\ Len(cmds) >= 3
    /\ cmds[Len(cmds)] = "poll"


(***************************************************************************)
(* Properties of the steps of CreateDevContainer, stated for Spec.         *)
(***************************************************************************)

\* the docker command tagged t was executed
Executed(t) == t \in Range(cmds)

\* the position of the docker commands of CreateDevContainer in its text
StepRank ==
    [t \in {"inspect", "run", "poll", "exec which go", "exec go install", "exec verify",
            "exec inject"} |->
        CASE t = "inspect" -> 1
          [] t = "run" -> 2
          [] t = "poll" -> 3
          [] t = "exec which go" -> 4
          [] t = "exec go install" -> 5
          [] t = "exec verify" -> 6
          [] t = "exec inject" -> 7]

ExecTags == {"exec which go", "exec go install", "exec verify", "exec inject"}

IsCreateStep(t) == t \in DOMAIN StepRank

\* the docker commands CreateDevContainer executed so far, in order
CreateSteps == SelectSeq(cmds, IsCreateStep)

\* they were executed in the order of the text, only the poll more than
\* once: each command is followed by a later one or, a poll, by a poll
InStepOrder ==
    LET steps == CreateSteps
    IN  \A i \in 1..(Len(steps) - 1) :
            \/ StepRank[steps[i]] < StepRank[steps[i + 1]]
            \/ steps[i] = "poll" /\ steps[i + 1] = "poll"

\* the values that follow the flag in the token list a, in order
RECURSIVE ValuesOf(_, _)
ValuesOf(a, flag) ==
    IF Len(a) < 2 THEN <<>>
    ELSE IF Head(a) = flag THEN <<a[2]>> \o ValuesOf(Tail(Tail(a)), flag)
    ELSE ValuesOf(Tail(a), flag)

\* the list q ends with x
EndsWith(q, x) == q # <<>> /\ q[Len(q)] = x

DevSwapVolume == devSwapDir \o sDevSwapMount

\* the arguments are those generated from the parsed specification with
\* the dev-swap volume and the debugger port appended to it
ArgsFromMutatedParse ==
    \E po \in PortOrders(stdout), no \in NetworkOrders(stdout) :
        LET r == ParseInspectJSON(stdout, po, no)
            vols == ValuesOf(DockerRunArgs(runArgs), flagV)
            ports == ValuesOf(DockerRunArgs(runArgs), flagP)
        IN  /\ r.err = errNone
            /\ ~devSpec.nil
            /\ vols = r.spec.v.Volumes.items
                         \o (IF devSwapDir # EmptyStr THEN <<DevSwapVolume>> ELSE <<>>)
            /\ ports = r.spec.v.Ports.items
                          \o (IF enableDebugger THEN <<sDebuggerPort>> ELSE <<>>)
            /\ \E lo \in Orders(DOMAIN devSpec.v.Labels.m) :
                  runArgs = GenerateRunCommand(devSpec.v, RunOptions(devContainerName), lo)

\* the dev-swap volume and the debugger port are the last -v and the last
\* -p value of the arguments of docker run
LastEntries ==
    /\ devSwapDir # EmptyStr => EndsWith(ValuesOf(DockerRunArgs(runArgs), flagV), DevSwapVolume)
    /\ enableDebugger => EndsWith(ValuesOf(DockerRunArgs(runArgs), flagP), sDebuggerPort)

\* C12: CreateDevContainer executes its docker commands in the order
\* inspect, run, readiness polls, debugger installation, injected command.
\* docker run is executed only after docker inspect and the parser
\* succeeded, with the arguments generated from the parsed specification
\* after the dev-swap volume and the port 2345:2345 were appended to it, so
\* that these are the last -v and the last -p values; the polls follow a
\* docker run that succeeded; a docker exec follows a poll that printed
\* true.
C12_StepOrder ==
    /\ InStepOrder
    /\ ~devSpec.nil => (Executed("inspect") /\ failed \cap {"inspect", "parse"} = {})
    /\ pc = "run" => ArgsFromMutatedParse
    /\ (pc = "run" \/ Executed("run")) =>
          (Executed("inspect") /\ failed \cap {"inspect", "parse"} = {} /\ LastEntries)
    /\ Executed("poll") => (Executed("run") /\ "run" \notin failed)
    /\ (Range(cmds) \cap ExecTags # {}) =>
          (Executed("poll") /\ pollOut = "true" /\ "wait" \notin failed)
    /\ (Executed("exec inject") /\ enableDebugger) => Executed("exec which go")

\* all steps were executed for a container with a volume and a published
\* port of its own, and a dev-swap directory was given
C12_Witness ==
    /\ pc = "exited"
    /\ EndsWith(cmds, "exec inject")
    /\ Executed("exec verify")
    /\ devSwapDir # EmptyStr
    /\ Len(ValuesOf(runArgs, flagV)) = 2
    /\ Len(ValuesOf(runArgs, flagP)) = 2
    /\ Occurrences(cmds, "poll") >= 2


(***************************************************************************)
(* Properties of main, stated for Spec.                                    *)
(***************************************************************************)

\* the dev container was found and the prompt was answered
Answered == exists /\ pc # "prompt"

AnsweredYes == Answered /\ ToLower(answer) = sY

AnsweredNo == Answered /\ ToLower(answer) # sY

\* main is in CreateDevContainer or came back from it
Creating ==
    \/ pc \in {"call_create", "inspect", "parse", "run", "wait", "poll", "sleep",
                "dbg_which", "dbg_install", "dbg_verify", "inject", "returned"}
    \/ Executed("inspect")

\* the list p is a prefix of the list q
IsPrefix(p, q) == Len(p) <= Len(q) /\ \A i \in 1..Len(p) : p[i] = q[i]

\* C13: main creates the dev container only when the existence check found
\* no container of that name or docker rm removed it.  When the check
\* fails, main exits with code 1 and docker ps is the only command; when
\* the container exists and the answer is not y, main exits with code 0
\* without stop, rm or run; when the answer is y, docker stop comes first,
\* then docker rm, then CreateDevContainer; a failed stop is logged as a
\* warning and rm follows, a failed rm ends the program with code 1 before
\* CreateDevContainer is called.
C13_MainFlow ==
    /\ "ps" \in failed => (cmds = <<"ps">> /\ pc = "exited" /\ exitCode = 1)
    /\ AnsweredNo => (cmds = <<"ps">> /\ pc = "exited" /\ exitCode = 0)
    /\ AnsweredYes =>
          /\ IsPrefix(cmds, <<"ps", "stop", "rm">>) \/ IsPrefix(<<"ps", "stop", "rm">>, cmds)
          /\ "stop" \in failed =>
                (warnStop \in warnings /\ (pc = "remove" \/ Executed("rm")))
          /\ "rm" \in failed =>
                (cmds = <<"ps", "stop", "rm">> /\ pc = "exited" /\ exitCode = 1)
    /\ ~exists => ~Executed("stop") /\ ~Executed("rm")
    /\ Creating =>
          /\ cmds # <<>> /\ cmds[1] = "ps" /\ "ps" \notin failed
          /\ ~exists \/ (AnsweredYes /\ Executed("rm") /\ "rm" \notin failed)
    /\ Executed("run") => Creating

\* the container existed, the answer was Y, docker stop failed, docker rm
\* succeeded and docker run was executed
C13_Witness ==
    /\ exists
    /\ answer = <<"Y">>
    /\ failed = {"stop"}
    /\ IsPrefix(<<"ps", "stop", "rm", "inspect", "run">>, cmds)

====
